---- MODULE Spec2Model ----
(***************************************************************************)
(* Model of go-rest-queue (src/main.go): an in-memory message queue served *)
(* over HTTP.  PUT /name?v=msg produces, GET /name[?timeout=N] consumes.   *)
(* Every request runs in its own goroutine; the store and the channel pool *)
(* are each guarded by their own sync.Mutex.                               *)
(*                                                                         *)
(* Requests are numbered in arrival order.  The message of PUT request r   *)
(* is represented by the number r (each produce introduces a distinct      *)
(* message); 0 represents the empty string "", which is never a produced   *)
(* payload (getQueueMessage rejects it).  The hand-off channel made by GET *)
(* request r is identified by r.                                           *)
(***************************************************************************)
EXTENDS Integers, Sequences, FiniteSets, TLC

\* Number of requests the server receives in a run in which requests overlap.
MaxReq == 3

\* Number of requests the server receives in a run in which every request
\* arrives after the previous ones have been answered.
MaxSeqReq == 5

\* Queue names used by the requests.
Names == {"a", "b"}

Reqs == 1..MaxSeqReq

VARIABLES
    store,       \* store.data : map[string][]string
    storeMx,     \* store.mx : holder of the mutex, 0 when unlocked
    pool,        \* channelPool.pool : map[string][]chan string
    poolMx,      \* channelPool.mx : holder of the mutex, 0 when unlocked
    nextReq,     \* number of requests received so far
    pc,          \* position of each request's goroutine
    method,      \* r.Method of each request
    name,        \* queue name of each request
    hasTimeout,  \* getQueueHandler: hasTimeout
    isSended,    \* putQueueHandler: isSended
    msg,         \* getQueueHandler: msg (from pop or from the channel)
    chanBuf,     \* contents of the channel ch made by each GET request
    chanState,   \* "none" (not made), "open", "closed"
    branch,      \* select case taken: "none", "timeout", "msg"
    status,      \* HTTP status of the response, 0 while none
    body,        \* HTTP body written (a message), 0 when none
    \* history variables (not program state)
    pushed,      \* per name, the messages appended by store.push, in order
    popped,      \* per name, the messages removed by store.pop, in order
    sent,        \* per channel, the messages written to it, in order
    sawWaiters,  \* per PUT, the handlers sendMessage found under its key
    deregs,      \* per GET, number of completed removeFromQueue calls
    registered,  \* per name, the channels added by addToQueue, in order
    overlap      \* some request arrived while another was being served

vars == <<store, storeMx, pool, poolMx, nextReq, pc, method, name, hasTimeout,
          isSended, msg, chanBuf, chanState, branch, status, body,
          pushed, popped, sent, sawWaiters, deregs, registered, overlap>>

shared == <<store, storeMx, pool, poolMx>>
locals == <<method, name, hasTimeout, isSended, msg, branch>>
chans  == <<chanBuf, chanState>>
resp   == <<status, body>>
hist   == <<pushed, popped, sent, sawWaiters, deregs, registered, overlap>>

----------------------------------------------------------------------------
\* Go maps: a function whose domain is the set of keys present.

EmptyMap == [k \in {} |-> <<>>]

\* m[k] of a Go map: the zero value (nil slice) when the key is absent.
MapGet(m, k) == IF k \in DOMAIN m THEN m[k] ELSE <<>>

MapSet(m, k, v) == [x \in (DOMAIN m) \cup {k} |-> IF x = k THEN v ELSE m[x]]

\* delete(m, k) replaced by storing an empty slice under the key.
MapDelete_LeavesEmpty(m, k) == MapSet(m, k, <<>>)

\* delete(m, k) replaced by dropping every key.
MapDelete_DropsAll(m, k) == [x \in {} |-> <<>>]

MapDelete(m, k) == [x \in (DOMAIN m) \ {k} |-> m[x]]

\* Capacity of the channel made by make(chan string, 1).
ChanCap == 1

----------------------------------------------------------------------------
\* Pure helpers.

\* popSlice taking the last element instead of the first.
popSlice_TakesLast(s) ==
    IF Len(s) = 0 THEN <<0, <<>>>>
    ELSE <<s[Len(s)], [i \in 1..(Len(s) - 1) |-> s[i]]>>

\* popSlice returning the slice it was given instead of the copy of the rest.
popSlice_KeepsHead(s) ==
    IF Len(s) = 0 THEN <<0, <<>>>>
    ELSE <<s[1], s>>

\* popSlice returns the first element and a copy of the rest.
popSlice(s) ==
    IF Len(s) = 0 THEN <<0, <<>>>>
    ELSE <<s[1], [i \in 1..(Len(s) - 1) |-> s[i + 1]]>>

\* make([]chan string, len(s)-1) panics when s is empty.
removeItemPanics(s) == Len(s) = 0

IndexOf(s, item) == CHOOSE i \in 1..Len(s) : s[i] = item /\ \A j \in 1..(i - 1) : s[j] # item

\* removeItem filling the hole with the last element instead of shifting.
removeItem_SwapRemove(s, item) ==
    IF \E i \in 1..Len(s) : s[i] = item
    THEN IF Len(s) = 1 THEN <<>>
         ELSE LET i == IndexOf(s, item)
              IN  [j \in 1..(Len(s) - 1) |-> IF j = i THEN s[Len(s)] ELSE s[j]]
    ELSE s

\* removeItem leaving the slice as it was.
removeItem_KeepsItem(s, item) == s

\* removeItem drops the first occurrence of item; nil when it was the only
\* element; s itself when item does not occur.
removeItem(s, item) ==
    IF \E i \in 1..Len(s) : s[i] = item
    THEN IF Len(s) = 1 THEN <<>>
         ELSE LET i == IndexOf(s, item)
              IN  [j \in 1..(Len(s) - 1) |-> IF j < i THEN s[j] ELSE s[j + 1]]
    ELSE s

----------------------------------------------------------------------------
Init ==
    /\ store = EmptyMap
    /\ storeMx = 0
    /\ pool = EmptyMap
    /\ poolMx = 0
    /\ nextReq = 0
    /\ pc = [r \in Reqs |-> "idle"]
    /\ method = [r \in Reqs |-> "none"]
    /\ name = [r \in Reqs |-> "none"]
    /\ hasTimeout = [r \in Reqs |-> FALSE]
    /\ isSended = [r \in Reqs |-> FALSE]
    /\ msg = [r \in Reqs |-> 0]
    /\ chanBuf = [r \in Reqs |-> <<>>]
    /\ chanState = [r \in Reqs |-> "none"]
    /\ branch = [r \in Reqs |-> "none"]
    /\ status = [r \in Reqs |-> 0]
    /\ body = [r \in Reqs |-> 0]
    /\ pushed = [n \in Names |-> <<>>]
    /\ popped = [n \in Names |-> <<>>]
    /\ sent = [r \in Reqs |-> <<>>]
    /\ sawWaiters = [r \in Reqs |-> <<>>]
    /\ deregs = [r \in Reqs |-> 0]
    /\ registered = [n \in Names |-> <<>>]
    /\ overlap = FALSE

InFlight(r) == pc[r] \notin {"idle", "done"}

Sequential == ~overlap /\ \A q \in Reqs : ~InFlight(q)

\* A new request arrives: it is the next one in arrival order.
Arrive(r) ==
    /\ nextReq < MaxReq \/ (nextReq < MaxSeqReq /\ Sequential)
    /\ r = nextReq + 1
    /\ nextReq' = r
    /\ overlap' = (overlap \/ \E q \in Reqs : InFlight(q))
    /\ UNCHANGED registered

----------------------------------------------------------------------------
\* queueHandler / putQueueHandler / getQueueHandler: request entry.

\* A request that never reaches the queue: a method other than PUT and GET, a
\* malformed path, or a PUT without a message.  400, nothing else happens.
BadRequest(r) ==
    /\ Arrive(r)
    /\ method' = [method EXCEPT ![r] = "bad"]
    /\ status' = [status EXCEPT ![r] = 400]
    /\ pc' = [pc EXCEPT ![r] = "done"]
    /\ UNCHANGED <<shared, name, hasTimeout, isSended, msg, branch, chans, body,
                   pushed, popped, sent, sawWaiters, deregs>>

\* PUT /n?v=<message r>: name and message parsed, about to call sendMessage.
PutStart(r) ==
    /\ Arrive(r)
    /\ \E n \in Names : name' = [name EXCEPT ![r] = n]
    /\ method' = [method EXCEPT ![r] = "PUT"]
    /\ pc' = [pc EXCEPT ![r] = "sendMessage"]
    /\ UNCHANGED <<shared, hasTimeout, isSended, msg, branch, chans, resp,
                   pushed, popped, sent, sawWaiters, deregs>>

\* GET /n or GET /n?timeout=N: name and timeout parsed, about to call pop.
GetStart(r) ==
    /\ Arrive(r)
    /\ \E n \in Names : name' = [name EXCEPT ![r] = n]
    /\ \E t \in BOOLEAN : hasTimeout' = [hasTimeout EXCEPT ![r] = t]
    /\ method' = [method EXCEPT ![r] = "GET"]
    /\ pc' = [pc EXCEPT ![r] = "pop"]
    /\ UNCHANGED <<shared, isSended, msg, branch, chans, resp,
                   pushed, popped, sent, sawWaiters, deregs>>

----------------------------------------------------------------------------
\* sync.Mutex.Lock at the head of store.push / store.pop.
StoreLock(r) ==
    /\ pc[r] \in {"push", "pop"}
    /\ storeMx = 0
    /\ storeMx' = r
    /\ pc' = [pc EXCEPT ![r] = IF pc[r] = "push" THEN "push_cs" ELSE "pop_cs"]
    /\ UNCHANGED <<store, pool, poolMx, nextReq, locals, chans, resp, hist>>

\* sync.Mutex.Lock at the head of sendMessage / addToQueue / removeFromQueue.
PoolLock(r) ==
    /\ pc[r] \in {"sendMessage", "addToQueue", "removeFromQueue"}
    /\ poolMx = 0
    /\ poolMx' = r
    /\ pc' = [pc EXCEPT ![r] = CASE pc[r] = "sendMessage" -> "send_cs"
                                 [] pc[r] = "addToQueue" -> "add_cs"
                                 [] OTHER -> "remove_cs"]
    /\ UNCHANGED <<store, storeMx, pool, nextReq, locals, chans, resp, hist>>

----------------------------------------------------------------------------
\* channelPool.sendMessage, under the pool mutex.

\* putQueueHandler pushing whatever sendMessage returned.
AfterSend_AlwaysPush(sended) == "push"

\* putQueueHandler, lines 96-98: push only when sendMessage returned false;
\* otherwise the handler returns.
AfterSend(sended) == IF sended THEN "done" ELSE "push"

\* net/http answers 200 when a handler returns without writing a status.
ImplicitOK(r, at) == IF at = "done" THEN [status EXCEPT ![r] = 200] ELSE status

\* sendMessage returning false without releasing p.mx (no deferred Unlock).
SendMessageMiss_KeepsLock(r) ==
    /\ pc[r] = "send_cs"
    /\ name[r] \notin DOMAIN pool
    /\ isSended' = [isSended EXCEPT ![r] = FALSE]
    /\ sawWaiters' = [sawWaiters EXCEPT ![r] = MapGet(pool, name[r])]
    /\ pc' = [pc EXCEPT ![r] = "push"]
    /\ UNCHANGED <<shared, nextReq, method, name, hasTimeout, msg, branch, chans,
                   resp, pushed, popped, sent, deregs, registered, overlap>>

\* No handlers under the key: return false; putQueueHandler goes on to push.
SendMessageMiss(r) ==
    /\ pc[r] = "send_cs"
    /\ name[r] \notin DOMAIN pool
    /\ isSended' = [isSended EXCEPT ![r] = FALSE]
    /\ sawWaiters' = [sawWaiters EXCEPT ![r] = MapGet(pool, name[r])]
    /\ poolMx' = 0
    /\ pc' = [pc EXCEPT ![r] = AfterSend(FALSE)]
    /\ status' = ImplicitOK(r, AfterSend(FALSE))
    /\ UNCHANGED <<store, storeMx, pool, nextReq, method, name, hasTimeout, msg,
                   branch, chans, body, pushed, popped, sent, deregs, registered, overlap>>

\* handlers[0] <- msg: proceeds only while the channel's buffer has room;
\* then return true and putQueueHandler returns.  A send on a closed channel
\* or an index into an empty slice panics (the deferred Unlock still runs).
SendMessageDeliver(r) ==
    /\ pc[r] = "send_cs"
    /\ name[r] \in DOMAIN pool
    /\ LET handlers == pool[name[r]]
       IN  IF Len(handlers) = 0 \/ chanState[handlers[1]] = "closed"
           THEN /\ pc' = [pc EXCEPT ![r] = "panic"]
                /\ UNCHANGED <<isSended, chanBuf, sent, sawWaiters, status>>
           ELSE /\ Len(chanBuf[handlers[1]]) < ChanCap
                /\ chanBuf' = [chanBuf EXCEPT ![handlers[1]] = Append(@, r)]
                /\ sent' = [sent EXCEPT ![handlers[1]] = Append(@, r)]
                /\ sawWaiters' = [sawWaiters EXCEPT ![r] = handlers]
                /\ isSended' = [isSended EXCEPT ![r] = TRUE]
                /\ pc' = [pc EXCEPT ![r] = AfterSend(TRUE)]
                /\ status' = ImplicitOK(r, AfterSend(TRUE))
    /\ poolMx' = 0
    /\ UNCHANGED <<store, storeMx, pool, nextReq, method, name, hasTimeout, msg,
                   branch, chanState, body, pushed, popped, deregs, registered, overlap>>

\* store.push, under the store mutex: append at the tail.
Push(r) ==
    /\ pc[r] = "push_cs"
    /\ store' = MapSet(store, name[r], Append(MapGet(store, name[r]), r))
    /\ pushed' = [pushed EXCEPT ![name[r]] = Append(@, r)]
    /\ storeMx' = 0
    /\ pc' = [pc EXCEPT ![r] = "done"]
    /\ status' = ImplicitOK(r, "done")
    /\ UNCHANGED <<pool, poolMx, nextReq, locals, chans, body, popped, sent,
                   sawWaiters, deregs, registered, overlap>>

----------------------------------------------------------------------------
\* getQueueHandler skipping the 404 of lines 114-117: it waits whenever
\* nothing was popped.
AfterPop_WaitsAnyway(ok, wait) == IF ok THEN "found" ELSE "wait"

\* getQueueHandler testing hasTimeout before ok.
AfterPop_WaitFirst(ok, wait) ==
    IF wait THEN "wait" ELSE IF ok THEN "found" ELSE "notfound"

\* getQueueHandler, lines 114-126: what the handler does with pop's result.
AfterPop(ok, wait) ==
    IF ~ok /\ ~wait THEN "notfound" ELSE IF ok THEN "found" ELSE "wait"

\* store.pop, under the store mutex, and the handler's branching on its
\* result (lines 112-133): 404, 200 with the message, or make the channel
\* and go on to register it.
Pop(r) ==
    /\ pc[r] = "pop_cs"
    /\ LET key == name[r]
           values == MapGet(store, key)
           found == key \in DOMAIN store /\ Len(values) # 0
           res == popSlice(values)
           next == AfterPop(found, hasTimeout[r])
       IN  /\ IF found
              THEN /\ store' = IF Len(res[2]) = 0 THEN MapDelete(store, key)
                                                  ELSE MapSet(store, key, res[2])
                   /\ popped' = [popped EXCEPT ![key] = Append(@, res[1])]
                   /\ msg' = [msg EXCEPT ![r] = res[1]]
              ELSE UNCHANGED <<store, popped, msg>>
           /\ CASE next = "found" ->
                     /\ status' = [status EXCEPT ![r] = 200]
                     /\ body' = [body EXCEPT ![r] = msg'[r]]
                     /\ pc' = [pc EXCEPT ![r] = "done"]
                     /\ UNCHANGED chanState
                [] next = "notfound" ->
                     /\ status' = [status EXCEPT ![r] = 404]
                     /\ pc' = [pc EXCEPT ![r] = "done"]
                     /\ UNCHANGED <<body, chanState>>
                [] OTHER ->
                     /\ chanState' = [chanState EXCEPT ![r] = "open"]
                     /\ pc' = [pc EXCEPT ![r] = "addToQueue"]
                     /\ UNCHANGED <<status, body>>
    /\ storeMx' = 0
    /\ UNCHANGED <<pool, poolMx, nextReq, method, name, hasTimeout, isSended,
                   branch, chanBuf, pushed, sent, sawWaiters, deregs, registered, overlap>>

\* channelPool.addToQueue, under the pool mutex; then time.NewTimer.
AddToQueue(r) ==
    /\ pc[r] = "add_cs"
    /\ pool' = MapSet(pool, name[r], Append(MapGet(pool, name[r]), r))
    /\ poolMx' = 0
    /\ registered' = [registered EXCEPT ![name[r]] = Append(@, r)]
    /\ pc' = [pc EXCEPT ![r] = "select"]
    /\ UNCHANGED <<store, storeMx, nextReq, locals, chans, resp, pushed, popped,
                   sent, sawWaiters, deregs, overlap>>

\* The timeout case closing ch before it calls removeFromQueue.
SelectTimeout_ClosesFirst(r) ==
    /\ pc[r] = "select"
    /\ branch' = [branch EXCEPT ![r] = "timeout"]
    /\ chanState' = [chanState EXCEPT ![r] = "closed"]
    /\ pc' = [pc EXCEPT ![r] = "removeFromQueue"]
    /\ UNCHANGED <<shared, nextReq, method, name, hasTimeout, isSended, msg,
                   chanBuf, resp, hist>>

\* The timer fires (timeout has elapsed) and select takes
\* case <-timeoutTimer.C.  When the channel holds a message too, select may
\* take either case.
SelectTimeout(r) ==
    /\ pc[r] = "select"
    /\ branch' = [branch EXCEPT ![r] = "timeout"]
    /\ pc' = [pc EXCEPT ![r] = "removeFromQueue"]
    /\ UNCHANGED <<shared, nextReq, method, name, hasTimeout, isSended, msg,
                   chans, resp, hist>>

\* select, case msg := <-ch
SelectMsg(r) ==
    /\ pc[r] = "select"
    /\ Len(chanBuf[r]) > 0
    /\ msg' = [msg EXCEPT ![r] = Head(chanBuf[r])]
    /\ chanBuf' = [chanBuf EXCEPT ![r] = Tail(@)]
    /\ branch' = [branch EXCEPT ![r] = "msg"]
    /\ pc' = [pc EXCEPT ![r] = "removeFromQueue"]
    /\ UNCHANGED <<shared, nextReq, method, name, hasTimeout, isSended,
                   chanState, resp, hist>>

\* channelPool.removeFromQueue, under the pool mutex.
RemoveFromQueue(r) ==
    /\ pc[r] = "remove_cs"
    /\ LET s == MapGet(pool, name[r])
       IN  IF removeItemPanics(s)
           THEN /\ pc' = [pc EXCEPT ![r] = "panic"]
                /\ UNCHANGED <<pool, deregs>>
           ELSE /\ pool' = IF Len(removeItem(s, r)) = 0
                           THEN MapDelete(pool, name[r])
                           ELSE MapSet(pool, name[r], removeItem(s, r))
                /\ deregs' = [deregs EXCEPT ![r] = @ + 1]
                /\ pc' = [pc EXCEPT ![r] = "respond"]
    /\ poolMx' = 0
    /\ UNCHANGED <<store, storeMx, nextReq, locals, chans, resp, pushed, popped,
                   sent, sawWaiters, registered, overlap>>

\* The response of the select branch, the return, and the deferred close(ch).
Respond(r) ==
    /\ pc[r] = "respond"
    /\ IF branch[r] = "timeout"
       THEN /\ status' = [status EXCEPT ![r] = 404]
            /\ UNCHANGED body
       ELSE /\ status' = [status EXCEPT ![r] = 200]
            /\ body' = [body EXCEPT ![r] = msg[r]]
    /\ chanState' = [chanState EXCEPT ![r] = "closed"]
    /\ pc' = [pc EXCEPT ![r] = "done"]
    /\ UNCHANGED <<shared, nextReq, locals, chanBuf, hist>>

----------------------------------------------------------------------------
\* The steps of request r's goroutine once the request has arrived.
Step(r) ==
    \/ StoreLock(r)
    \/ PoolLock(r)
    \/ SendMessageMiss(r)
    \/ SendMessageDeliver(r)
    \/ Push(r)
    \/ Pop(r)
    \/ AddToQueue(r)
    \/ SelectTimeout(r)
    \/ SelectMsg(r)
    \/ RemoveFromQueue(r)
    \/ Respond(r)

Next ==
    \E r \in Reqs :
        \/ BadRequest(r)
        \/ PutStart(r)
        \/ GetStart(r)
        \/ StoreLock(r)
        \/ PoolLock(r)
        \/ SendMessageMiss(r)
        \/ SendMessageDeliver(r)
        \/ Push(r)
        \/ Pop(r)
        \/ AddToQueue(r)
        \/ SelectTimeout(r)
        \/ SelectMsg(r)
        \/ RemoveFromQueue(r)
        \/ Respond(r)

Spec == Init /\ [][Next]_vars

\* Every goroutine that can run does run, and a started timer fires.
FairSpec == Spec /\ \A r \in Reqs : WF_vars(Step(r))

----------------------------------------------------------------------------
\* Vocabulary of the properties.

Done(r) == pc[r] = "done"

Puts(n) == {r \in Reqs : method[r] = "PUT" /\ name[r] = n}

Gets(n) == {r \in Reqs : method[r] = "GET" /\ name[r] = n}

\* Position of x among the members of S, in arrival order.
Rank(S, x) == Cardinality({y \in S : y <= x})

Range(s) == {s[i] : i \in 1..Len(s)}

\* A consume call that returned a message.
Delivered(g) == method[g] = "GET" /\ Done(g) /\ status[g] = 200

----------------------------------------------------------------------------
\* C1: FIFO per name.  The messages of a name leave the store in the order
\* they were pushed (removal from the head, insertion at the tail); and in a
\* run where requests are served one after another, with produces P1..Pn into
\* a name followed by no-wait consumes on it, the i-th consume returns Pi
\* with found=true for i <= n and found=false (404) after that.
C1_FifoPerName ==
    /\ \A n \in Names : pushed[n] = popped[n] \o MapGet(store, n)
    /\ ~overlap =>
         \A n \in Names :
            (/\ \A q \in Puts(n) \cup Gets(n) : Done(q)
             /\ \A g \in Gets(n) : ~hasTimeout[g]
             /\ \A q \in Puts(n) : \A g \in Gets(n) : q < g)
            => \A g \in Gets(n) :
                  IF Rank(Gets(n), g) <= Cardinality(Puts(n))
                  THEN /\ status[g] = 200
                       /\ body[g] \in Puts(n)
                       /\ Rank(Puts(n), body[g]) = Rank(Gets(n), g)
                  ELSE status[g] = 404 /\ body[g] = 0

\* Two produces into one name, then three no-wait consumes: the first two
\* returned the messages in production order, the third found nothing.
C1_Witness ==
    /\ ~overlap
    /\ \E n \in Names :
          /\ Cardinality(Puts(n)) = 2
          /\ Cardinality(Gets(n)) = 3
          /\ \A q \in Puts(n) \cup Gets(n) : Done(q)
          /\ \A g \in Gets(n) : ~hasTimeout[g]
          /\ \A q \in Puts(n) : \A g \in Gets(n) : q < g
          /\ Len(popped[n]) = 2

\* C2: no duplicate delivery.  No two consume calls return the same
\* message, whether it came out of the store or through a channel.
C2_NoDuplicateDelivery ==
    \A g1 \in Reqs : \A g2 \in Reqs :
        (g1 # g2 /\ Delivered(g1) /\ Delivered(g2)) => body[g1] # body[g2]

\* Two consume calls on one name have each returned a message.
C2_Witness ==
    \E g1 \in Reqs : \E g2 \in Reqs :
        /\ g1 # g2
        /\ name[g1] = name[g2]
        /\ Delivered(g1) /\ Delivered(g2)

\* The store or a channel buffer holds message p.
StoreHas(p) == \E n \in DOMAIN store : p \in Range(store[n])

\* Message p sits in the channel of a consumer that is waiting in select.
InChannelOfReader(p) ==
    \E c \in Reqs : p \in Range(chanBuf[c]) /\ pc[c] = "select"

\* The consume calls that took message p (from pop or from their channel).
TakenBy(p) == {g \in Reqs : method[g] = "GET" /\ msg[g] = p}

Registered(c) == \E n \in DOMAIN pool : c \in Range(pool[n])

\* C3: exactly-one receipt.  While no waiting consume has taken its timeout
\* branch, every message accepted by a finished produce is in exactly one
\* place: buffered in the store, in the channel of a consumer still waiting
\* to read it, or taken by exactly one consume call.
C3_ExactlyOneReceipt ==
    (\A c \in Reqs : branch[c] # "timeout") =>
        \A p \in Reqs :
            (method[p] = "PUT" /\ Done(p)) =>
                /\ Cardinality(TakenBy(p)) <= 1
                /\ \/ StoreHas(p) /\ ~InChannelOfReader(p) /\ TakenBy(p) = {}
                   \/ ~StoreHas(p) /\ InChannelOfReader(p) /\ TakenBy(p) = {}
                   \/ ~StoreHas(p) /\ ~InChannelOfReader(p) /\ TakenBy(p) # {}

\* C4: one-shot hand-off.  At most one message is ever written into the
\* channel of a waiter handle.
C4_OneShotHandoff == \A c \in Reqs : Len(sent[c]) <= 1

\* C5: fast-path precedence.  A produce that finds handlers registered under
\* its name writes its message to the first of them and never pushes it; a
\* produce pushes (or is about to) only when it found none; no message is
\* both written to a channel and pushed to the store.
C5_FastPathPrecedence ==
    \A p \in Reqs :
        /\ (pc[p] \in {"push", "push_cs"} \/ \E n \in Names : p \in Range(pushed[n]))
             => (sawWaiters[p] = <<>> /\ \A c \in Reqs : p \notin Range(sent[c]))
        /\ (method[p] = "PUT" /\ Done(p) /\ sawWaiters[p] # <<>>)
             => /\ p \in Range(sent[Head(sawWaiters[p])])
                /\ \A n \in Names : p \notin Range(pushed[n])
        /\ (method[p] = "PUT" /\ Done(p) /\ sawWaiters[p] = <<>>)
             => p \in Range(pushed[name[p]])

\* A produce found two waiters under its name and handed its message to
\* the one registered first.
C5_Witness ==
    \E p \in Reqs :
        /\ method[p] = "PUT" /\ Done(p)
        /\ Len(sawWaiters[p]) = 2
        /\ sent[sawWaiters[p][1]] = <<p>>
        /\ sent[sawWaiters[p][2]] = <<>>

\* A producer is inside sendMessage, holds the pool mutex, and its send is
\* blocked because the first handler's channel is full.
BlockedInSend(p) ==
    /\ pc[p] = "send_cs"
    /\ poolMx = p
    /\ name[p] \in DOMAIN pool
    /\ Len(pool[name[p]]) > 0
    /\ Len(chanBuf[pool[name[p]][1]]) >= ChanCap

\* C6: the registry never blocks while holding its lock.
C6_NeverBlocksHoldingLock == \A p \in Reqs : ~BlockedInSend(p)

\* C7: produce always completes.  Every produce call that has started
\* eventually returns.
C7_ProduceCompletes ==
    \A p \in Reqs : (method[p] = "PUT") ~> Done(p)

\* C8: ConsumeWait is bounded by its deadline.  A waiting consume whose
\* timer has fired, or whose channel holds a message, eventually
\* deregisters and returns.
C8_ConsumeWaitReturns ==
    \A g \in Reqs :
        (branch[g] # "none" \/ (pc[g] = "select" /\ Len(chanBuf[g]) > 0)) ~> Done(g)

\* A waiting consume g on a name and one produce p for that name arriving
\* after g, no other request on the name.
C9Scenario(g, p) ==
    /\ method[g] = "GET" /\ hasTimeout[g]
    /\ method[p] = "PUT" /\ name[p] = name[g]
    /\ g < p
    /\ \A q \in Reqs \ {g, p} : name[q] # name[g]

\* C9: wait-then-deliver.  In that scenario, once the produce has returned
\* the consume does not leave its wait by the timeout exit (found=false),
\* and when it returns it returns found=true with the produced message.
C9_WaitThenDeliver ==
    [][\A g \in Reqs : \A p \in Reqs :
          (C9Scenario(g, p) /\ Done(p)) =>
              /\ pc[g] = "select" => branch'[g] # "timeout"
              /\ (pc[g] = "respond" /\ pc'[g] = "done")
                   => (status'[g] = 200 /\ body'[g] = p)]_vars

\* C10: guaranteed release.  A waiting consume deregisters its handle
\* exactly once on either exit path, and once it has left removeFromQueue
\* (and so whenever it has returned, its channel closed) the handle is in
\* the registry no more.
C10_GuaranteedRelease ==
    \A g \in Reqs :
        /\ deregs[g] <= 1
        /\ (chanState[g] # "none" /\ pc[g] \in {"respond", "done"})
             => (deregs[g] = 1 /\ ~Registered(g))
        /\ chanState[g] = "closed" => (Done(g) /\ ~Registered(g))
        /\ deregs[g] = 1 => branch[g] \in {"timeout", "msg"}

\* One waiting consume has returned by timeout and another by delivery.
C10_Witness ==
    \E g1 \in Reqs : \E g2 \in Reqs :
        /\ Done(g1) /\ branch[g1] = "timeout" /\ deregs[g1] = 1
        /\ Done(g2) /\ branch[g2] = "msg" /\ deregs[g2] = 1
        /\ name[g1] = name[g2]

\* C11: cleanup invariant.  Neither store.data nor channelPool.pool holds a
\* key whose slice is empty: a key is present exactly while its sequence is
\* non-empty.
C11_NoEmptyKeys ==
    /\ \A n \in DOMAIN store : Len(store[n]) > 0
    /\ \A n \in DOMAIN pool : Len(pool[n]) > 0

\* A name's last message has been popped and its last waiter deregistered:
\* both keys are gone again.
C11_Witness ==
    \E n \in Names :
        /\ Len(popped[n]) > 0
        /\ n \notin DOMAIN store
        /\ \E g \in Reqs : name[g] = n /\ deregs[g] = 1
        /\ n \notin DOMAIN pool

----------------------------------------------------------------------------
\* channelPool.removeFromQueue called directly, on any registry: the pool
\* holds any well-formed content (no empty slice, no handle twice) and one
\* caller is about to deregister a handle that may or may not be in it.

\* Longest handler slice of the registries drawn.
MaxWaiters == 2

HandlerSlices ==
    {s \in UNION {[1..k -> Reqs] : k \in 1..MaxWaiters} :
        \A i \in 1..Len(s) : \A j \in 1..Len(s) : i # j => s[i] # s[j]}

Registries ==
    {m \in UNION {[D -> HandlerSlices] : D \in SUBSET Names} :
        \A n1 \in DOMAIN m : \A n2 \in DOMAIN m :
            n1 # n2 => Range(m[n1]) \cap Range(m[n2]) = {}}

DeregInit ==
    \E reg \in Registries : \E c \in Reqs : \E n \in Names :
        /\ store = EmptyMap
        /\ storeMx = 0
        /\ pool = reg
        /\ poolMx = 0
        /\ nextReq = MaxSeqReq
        /\ pc = [r \in Reqs |-> IF r = c THEN "removeFromQueue" ELSE "idle"]
        /\ method = [r \in Reqs |-> IF r = c THEN "GET" ELSE "none"]
        /\ name = [r \in Reqs |-> IF r = c THEN n ELSE "none"]
        /\ hasTimeout = [r \in Reqs |-> r = c]
        /\ isSended = [r \in Reqs |-> FALSE]
        /\ msg = [r \in Reqs |-> 0]
        /\ chanBuf = [r \in Reqs |-> <<>>]
        /\ chanState = [r \in Reqs |-> IF r = c THEN "open" ELSE "none"]
        /\ branch = [r \in Reqs |-> IF r = c THEN "timeout" ELSE "none"]
        /\ status = [r \in Reqs |-> 0]
        /\ body = [r \in Reqs |-> 0]
        /\ pushed = [k \in Names |-> <<>>]
        /\ popped = [k \in Names |-> <<>>]
        /\ sent = [r \in Reqs |-> <<>>]
        /\ sawWaiters = [r \in Reqs |-> <<>>]
        /\ deregs = [r \in Reqs |-> 0]
        /\ registered = [k \in Names |-> MapGet(reg, k)]
        /\ overlap = FALSE

DeregNext ==
    \E r \in Reqs :
        \/ PoolLock(r)
        \/ RemoveFromQueue(r)
        \/ Respond(r)

DeregSpec == DeregInit /\ [][DeregNext]_vars

\* C12: deregister is idempotent.  removeFromQueue(name, ch) with ch not
\* in the registry raises no error and leaves the registry as it was, both
\* when other handles are registered under name and when name has no entry.
C12_DeregisterIdempotent ==
    [][\A r \in Reqs :
          (/\ pc[r] = "remove_cs"
           /\ pc'[r] # "remove_cs"
           /\ r \notin Range(MapGet(pool, name[r])))
          => (pool' = pool /\ pc'[r] # "panic")]_vars

----------------------------------------------------------------------------
\* Request r takes a step of its handler.
StepOf(r) == pc'[r] # pc[r]

\* C13: no-wait empty behaviour.  The pop of a consume without timeout on a
\* name with nothing buffered ends the request with 404 and an empty body,
\* makes and registers no channel, and leaves store and pool as they were;
\* a consume without timeout never owns a channel and is never registered.
C13_NoWaitEmpty ==
    [][\A r \in Reqs :
          /\ (/\ pc[r] = "pop_cs" /\ StepOf(r)
              /\ ~hasTimeout[r]
              /\ MapGet(store, name[r]) = <<>>)
             => /\ pc'[r] = "done"
                /\ status'[r] = 404 /\ body'[r] = 0
                /\ store' = store /\ pool' = pool
          /\ (method'[r] = "GET" /\ ~hasTimeout'[r])
             => (chanState'[r] = "none" /\ ~Registered(r)' /\ branch'[r] = "none")]_vars

\* A consume without timeout was answered 404 while the store and the pool
\* held entries (of other requests).
C13_Witness ==
    \E r \in Reqs :
        /\ method[r] = "GET" /\ ~hasTimeout[r]
        /\ Done(r) /\ status[r] = 404
        /\ store # EmptyMap
        /\ pool # EmptyMap

\* C17: buffered message preferred over waiting.  The pop of a consume with
\* a timeout on a name whose store sequence is non-empty ends the request
\* with 200 and the head message, taken off the store, without making or
\* registering a channel (so no timer and no select either).
C17_BufferedPreferred ==
    [][\A r \in Reqs :
          (/\ pc[r] = "pop_cs" /\ StepOf(r)
           /\ hasTimeout[r]
           /\ MapGet(store, name[r]) # <<>>)
          => /\ pc'[r] = "done"
             /\ status'[r] = 200
             /\ body'[r] = Head(store[name[r]])
             /\ MapGet(store', name[r]) = Tail(store[name[r]])
             /\ chanState'[r] = "none" /\ branch'[r] = "none"
             /\ pool' = pool]_vars

\* A consume with a timeout returned a buffered message and never made a
\* channel.
C17_Witness ==
    \E r \in Reqs :
        /\ method[r] = "GET" /\ hasTimeout[r]
        /\ Done(r) /\ status[r] = 200
        /\ body[r] \in Range(popped[name[r]])
        /\ chanState[r] = "none"

\* C14: independent names.  A step of a request on name A leaves the store
\* sequence, the waiter sequence and the waiters' channels of every other
\* name as they were (key presence included), and what pop and sendMessage
\* return is decided by what is held under A alone.
C14_IndependentNames ==
    [][\A r \in Reqs :
          StepOf(r) =>
              /\ \A n \in Names :
                    n # name'[r] =>
                        /\ (n \in DOMAIN store') = (n \in DOMAIN store)
                        /\ MapGet(store', n) = MapGet(store, n)
                        /\ (n \in DOMAIN pool') = (n \in DOMAIN pool)
                        /\ MapGet(pool', n) = MapGet(pool, n)
              /\ \A c \in Reqs :
                    (c # r /\ name[c] # name'[r]) => chanBuf'[c] = chanBuf[c]
              /\ pc[r] = "pop_cs" =>
                    IF MapGet(store, name[r]) # <<>>
                    THEN status'[r] = 200 /\ body'[r] = Head(store[name[r]])
                    ELSE status'[r] # 200 /\ body'[r] = 0
              /\ pc[r] = "send_cs" =>
                    (isSended'[r] = (name[r] \in DOMAIN pool))]_vars

\* The last message of one name has been popped, its key deleted, while
\* the other name still holds a buffered message.
C14_Witness ==
    \E a \in Names : \E b \in Names :
        /\ a # b
        /\ Len(popped[a]) > 0 /\ a \notin DOMAIN store
        /\ b \in DOMAIN store

\* Position of channel c in the registration order of name n.
RegPos(n, c) == CHOOSE i \in 1..Len(registered[n]) : registered[n][i] = c

\* C15: waiter FIFO.  The handlers of a name are exactly the registered
\* channels not yet deregistered, in registration order (removing any of
\* them keeps the order of the rest); and a message handed off went to the
\* channel registered earliest among those sendMessage found.
C15_WaiterFifo ==
    /\ \A n \in Names :
          LET s == MapGet(pool, n)
          IN  /\ Range(s) = {c \in Range(registered[n]) : deregs[c] = 0}
              /\ \A i \in 1..Len(s) : \A j \in 1..Len(s) :
                    i < j => RegPos(n, s[i]) < RegPos(n, s[j])
    /\ \A p \in Reqs : \A c \in Reqs :
          p \in Range(sent[c]) =>
              /\ c \in Range(sawWaiters[p])
              /\ \A c2 \in Range(sawWaiters[p]) :
                    RegPos(name[p], c) <= RegPos(name[p], c2)

\* Two consumers registered under a name, the first left by timeout, and a
\* later produce handed its message to the second.
C15_Witness ==
    \E n \in Names : \E p \in Reqs :
        /\ Len(registered[n]) = 2
        /\ deregs[registered[n][1]] = 1
        /\ sawWaiters[p] = <<registered[n][2]>>
        /\ sent[registered[n][2]] = <<p>>

\* C16: the two locks are never nested.  No request holds the store mutex
\* and the pool mutex at the same time.
C16_LocksNeverNested ==
    \A r \in Reqs : ~(storeMx = r /\ poolMx = r)

\* Both mutexes are held at once, by two different requests.
C16_Witness ==
    /\ storeMx # 0
    /\ poolMx # 0
    /\ storeMx # poolMx

\* C18: no send on a closed channel.  A channel is closed only once its
\* owner has deregistered it; the channel a producer inside sendMessage is
\* about to send on (or is blocked sending on) is open; and no request has
\* panicked.
C18_NoSendOnClosed ==
    /\ \A c \in Reqs :
          chanState[c] = "closed" => (deregs[c] = 1 /\ ~Registered(c))
    /\ \A p \in Reqs :
          (pc[p] = "send_cs" /\ name[p] \in DOMAIN pool)
             => (Len(pool[name[p]]) > 0 /\ chanState[pool[name[p]][1]] = "open")
    /\ \A r \in Reqs : pc[r] # "panic"

\* A channel that received a message has been closed, and a producer for
\* the same name is inside sendMessage.
C18_Witness ==
    \E c \in Reqs : \E p \in Reqs :
        /\ chanState[c] = "closed"
        /\ sent[c] # <<>>
        /\ name[p] = name[c]
        /\ pc[p] = "send_cs"

====
